---- MODULE Spec2Model ----
(***************************************************************************)
(* Model of the Nova Titan prediction engine                                *)
(* (src/ml/models/prediction_engine.py, src/ml/main.py).                    *)
(*                                                                         *)
(* The engine object is the record `engine`, whose fields carry the names   *)
(* of the attributes of class PredictionEngine.  The model directory is     *)
(* `disk`, the cache collaborator is `cache`, and `tasks` holds the          *)
(* in-flight predict() coroutines, one step per suspension point.           *)
(* Floats are scaled integers: probabilities and confidences in 1/Scale,    *)
(* ensemble weights in 1/10; the arithmetic of np.std is binary floating    *)
(* point with a short mantissa.  Time is the logical clock `clock`.         *)
(***************************************************************************)
EXTENDS Integers, Sequences, FiniteSets, TLC

VARIABLES
  engine,      \* the PredictionEngine object of the running process
  disk,        \* the model directory: artifact name -> file
  cache,       \* the cache collaborator: key -> entry
  tasks,       \* the predict() coroutines, each at a suspension point
  clock,       \* logical time, read by datetime.utcnow()
  calls,       \* number of requests (engine method calls) made so far
  phase,       \* "constructed" until initialize() has returned, then "ready"
  init_trace,  \* what the stages of the last initialize() did
  reply,       \* what the last read-only engine method returned
  hashseed     \* the seed of the running process's str hash (PYTHONHASHSEED)

vars == <<engine, disk, cache, tasks, clock, calls, phase, init_trace, reply, hashseed>>

-----------------------------------------------------------------------------
(* Bounds of the model *)

\* a process is restarted only while the logical clock is below this
MaxClock == 2
\* number of predict() coroutines that can be in flight together
MaxTasks == 2
\* number of requests (predict, retrain and the read-only methods) in one behaviour
MaxCalls == 2

\* bits of the mantissa of the model's floating point numbers
MantissaBits == 4

-----------------------------------------------------------------------------
(* Program constants *)

\* n_features passed to generate_mock_training_data
NFeatures == 25
\* number of demo feature names
NDemoFeatures == 10
\* ttl of a cache entry written by predict
CacheTTL == 3600

ModelIds == {"lightgbm", "logistic", "random_forest"}

\* the five artifacts, in the order _load_models reads and _save_models writes them
FileOrder == <<"lightgbm", "logistic", "random_forest", "scaler", "metadata">>
Files == {FileOrder[i] : i \in 1..5}

\* Python's None for optionals is the empty tuple, Some(v) is <<v>>
None == <<>>
Some(v) == <<v>>

\* a model or scaler attribute: the class of the object, the training run that
\* built it (its identity) and whether fit() has completed on it
NoneModel == [cls |-> "NoneType", gen |-> 0, fitted |-> FALSE]
NewModel(c, g) == [cls |-> c, gen |-> g, fitted |-> FALSE]
Fit(m) == [m EXCEPT !.fitted = TRUE]

\* {} as a dict of weights, and the literal of lines 107-109
EmptyDict == [k \in {} |-> 0]
DefaultWeights == [k \in ModelIds |->
                     CASE k = "lightgbm" -> 5
                       [] k = "logistic" -> 3
                       [] k = "random_forest" -> 2]

\* [f"{prefix}{i}" for i in range(n)], kept as the prefix and the length; the
\* list itself is Names(l), and [] is NameList("", 0)
NameList(prefix, n) == [prefix |-> prefix, n |-> n]
Names(l) == [i \in 1..l.n |-> <<l.prefix, i - 1>>]

\* dict.get(key, default)
Get(d, k, default) == IF k \in DOMAIN d THEN d[k] ELSE default

-----------------------------------------------------------------------------
(* PredictionEngine.__init__ *)

EngineInit ==
  [ cache_manager       |-> TRUE,
    lightgbm_model      |-> NoneModel,
    logistic_model      |-> NoneModel,
    random_forest_model |-> NoneModel,
    ensemble_weights    |-> EmptyDict,
    scaler              |-> NoneModel,
    feature_names       |-> NameList("", 0),
    model_version       |-> "1.0.0",
    last_trained        |-> None,
    is_trained          |-> FALSE,
    performance_metrics |-> None ]

-----------------------------------------------------------------------------
(* The model directory *)

\* a file of the model directory: whether it exists, whether its bytes are a
\* truncated dump (joblib.load raises on it), and the object it holds
AbsentFile == [exists |-> FALSE, truncated |-> FALSE, obj |-> NoneModel]
FileOf(o) == [exists |-> TRUE, truncated |-> FALSE, obj |-> o]
TruncatedFile == [exists |-> TRUE, truncated |-> TRUE, obj |-> NoneModel]

EmptyDisk == [f \in Files |-> AbsentFile]

\* a bundle put into the model directory by a deployment (trained at time 0);
\* its metadata is a dict that may lack the 'ensemble_weights' key
DeployedClass(f) ==
  CASE f = "lightgbm" -> "LGBMClassifier"
    [] f = "logistic" -> "CalibratedClassifierCV"
    [] f = "random_forest" -> "RandomForestClassifier"
    [] f = "scaler" -> "StandardScaler"

DeployedMetadataBase ==
  [ version |-> "1.0.0", last_trained |-> Some(0),
    feature_names |-> NameList("feature_", NFeatures),
    performance_metrics |-> None ]

\* weights summing to 1.4
SkewedWeights == [k \in ModelIds |->
                    CASE k = "lightgbm" -> 9
                      [] k = "logistic" -> 3
                      [] k = "random_forest" -> 2]

DeployedMetadata(w) ==
  CASE w = "nokey"  -> DeployedMetadataBase
    [] w = "skewed" -> [ version |-> "1.0.0", last_trained |-> Some(0),
                         feature_names |-> NameList("feature_", NFeatures),
                         performance_metrics |-> None,
                         ensemble_weights |-> SkewedWeights ]

DeployedKinds == {"nokey", "skewed"}

DeployedFile(f, w) ==
  IF f = "metadata" THEN FileOf(DeployedMetadata(w))
  ELSE FileOf(Fit(NewModel(DeployedClass(f), 0)))

\* the directory at process start: any subset of a deployed bundle's files
DeployedDisk(present, w) ==
  [f \in Files |-> IF f \in present THEN DeployedFile(f, w) ELSE AbsentFile]

-----------------------------------------------------------------------------
(* _load_models, lines 83-118 *)

\* index of the first joblib.load that raises: a truncated file, or the
\* transient failure failAt (0 = none); 6 when no load raises
RECURSIVE FirstLoadFailure(_, _, _)
FirstLoadFailure(d, failAt, i) ==
  IF i > 5 THEN 6
  ELSE IF d[FileOrder[i]].truncated \/ failAt = i THEN i
  ELSE FirstLoadFailure(d, failAt, i + 1)

\* the check leaves the metadata file out
AllFilesExist_ModelsOnly(d) == \A f \in Files \ {"metadata"} : d[f].exists

AllFilesExist(d) == \A f \in Files : d[f].exists

\* the engine after the metadata has been read (lines 104-112)
ApplyMetadata(e, metadata) ==
  [e EXCEPT
     !.model_version = Get(metadata, "version", "1.0.0"),
     !.last_trained = Get(metadata, "last_trained", None),
     !.feature_names = Get(metadata, "feature_names", NameList("", 0)),
     !.ensemble_weights = Get(metadata, "ensemble_weights", DefaultWeights),
     !.performance_metrics = Get(metadata, "performance_metrics", None),
     !.is_trained = TRUE]

\* the engine after the first k of the four model loads of lines 97-100
LoadPrefix(e, d, k) ==
  [e EXCEPT
     !.lightgbm_model = IF k >= 1 THEN d["lightgbm"].obj ELSE @,
     !.logistic_model = IF k >= 2 THEN d["logistic"].obj ELSE @,
     !.random_forest_model = IF k >= 3 THEN d["random_forest"].obj ELSE @,
     !.scaler = IF k >= 4 THEN d["scaler"].obj ELSE @]

\* is_trained is set before the files are loaded
LoadModels_FlagFirst(e, d, failAt) ==
  IF ~AllFilesExist(d) THEN [engine |-> e, outcome |-> "absent"]
  ELSE LET f == FirstLoadFailure(d, failAt, 1)
           flagged == [e EXCEPT !.is_trained = TRUE] IN
       IF f <= 5 THEN [engine |-> LoadPrefix(flagged, d, f - 1), outcome |-> "failed"]
       ELSE [engine |-> ApplyMetadata(LoadPrefix(flagged, d, 4), d["metadata"].obj),
             outcome |-> "loaded"]

\* _load_models never raises: the result is the engine and what happened
LoadModels(e, d, failAt) ==
  IF ~AllFilesExist(d) THEN [engine |-> e, outcome |-> "absent"]
  ELSE LET f == FirstLoadFailure(d, failAt, 1) IN
       IF f <= 5 THEN [engine |-> LoadPrefix(e, d, f - 1), outcome |-> "failed"]
       ELSE [engine |-> ApplyMetadata(LoadPrefix(e, d, 4), d["metadata"].obj),
             outcome |-> "loaded"]

-----------------------------------------------------------------------------
(* _get_feature_importance, lines 288-307 *)

\* feature_importances_ of a fitted LightGBM model: one value per feature
\* column (sample values with ties; the library computes them from the data)
FeatureImportances(m) == [i \in 1..NFeatures |-> ((i * 3 + m.gen) % 4)]

\* zip(a, b): pairs up to the shorter length
Zip(a, b) ==
  LET n == IF Len(a) < Len(b) THEN Len(a) ELSE Len(b)
  IN [i \in 1..n |-> <<a[i], b[i]>>]

RemoveAt(s, k) == [i \in 1..(Len(s) - 1) |-> IF i < k THEN s[i] ELSE s[i + 1]]

\* sorted(pairs, key=lambda x: x[1], reverse=True): stable, equal keys keep
\* their original order
RECURSIVE SortedByImportance(_)
SortedByImportance(s) ==
  IF s = <<>> THEN <<>>
  ELSE LET k == CHOOSE i \in 1..Len(s) :
                  /\ \A j \in 1..Len(s) : s[j][2] <= s[i][2]
                  /\ \A j \in 1..(i - 1) : s[j][2] < s[i][2]
       IN <<s[k]>> \o SortedByImportance(RemoveAt(s, k))

GetFeatureImportance(e) ==
  IF e.lightgbm_model.cls # "NoneType" /\ e.lightgbm_model.fitted
  THEN LET sorted == SortedByImportance(
                       Zip(Names(e.feature_names), FeatureImportances(e.lightgbm_model)))
       IN [r \in 1..Len(sorted) |->
             [feature |-> sorted[r][1], importance |-> sorted[r][2], rank |-> r]]
  ELSE <<>>

-----------------------------------------------------------------------------
(* _evaluate_ensemble, lines 241-276: never raises *)

\* evalFail: a predict_proba or metric call raises.  The weights of the three
\* models are looked up in self.ensemble_weights (KeyError when one is missing).
EvaluateEnsemble(e, evalFail, now) ==
  IF evalFail \/ ~(ModelIds \subseteq DOMAIN e.ensemble_weights) THEN e
  ELSE [e EXCEPT !.performance_metrics =
          Some([ weights_used |-> e.ensemble_weights,
                 feature_importance |-> GetFeatureImportance(e),
                 last_trained |-> now,
                 model_version |-> e.model_version ])]

-----------------------------------------------------------------------------
(* _train_ensemble, lines 167-239 *)

\* the places where a training run can raise: 1 = generate_mock_training_data
\* (in _train_initial_models); 2 = the scaler's fit/transform; 3 = LightGBM fit;
\* 4 = LogisticRegression fit; 5 = the calibrated classifier's fit;
\* 6 = RandomForest fit; 0 = nothing raises
TrainFailures == 0..6

\* Each attribute is assigned the new, unfitted object before its fit is
\* called; the exception is logged and raised again.
TrainEnsemble(e, failAt, evalFail, now) ==
  LET e2 == [e  EXCEPT !.scaler = NewModel("StandardScaler", now)]
      e2f == [e2 EXCEPT !.scaler = Fit(@)]
      e3 == [e2f EXCEPT !.lightgbm_model = NewModel("LGBMClassifier", now)]
      e3f == [e3 EXCEPT !.lightgbm_model = Fit(@)]
      e4 == [e3f EXCEPT !.logistic_model = NewModel("LogisticRegression", now)]
      e5 == [e4 EXCEPT !.logistic_model = NewModel("CalibratedClassifierCV", now)]
      e5f == [e5 EXCEPT !.logistic_model = Fit(@)]
      e6 == [e5f EXCEPT !.random_forest_model = NewModel("RandomForestClassifier", now)]
      e6f == [e6 EXCEPT !.random_forest_model = Fit(@)]
      e7 == EvaluateEnsemble(e6f, evalFail, now)
      done == [e7 EXCEPT !.feature_names = NameList("feature_", NFeatures),
                         !.is_trained = TRUE,
                         !.last_trained = Some(now)]
  IN CASE failAt = 2 -> [engine |-> e2, outcome |-> "failed"]
       [] failAt = 3 -> [engine |-> e3, outcome |-> "failed"]
       [] failAt = 4 -> [engine |-> e4, outcome |-> "failed"]
       [] failAt = 5 -> [engine |-> e5, outcome |-> "failed"]
       [] failAt = 6 -> [engine |-> e6, outcome |-> "failed"]
       [] OTHER      -> [engine |-> done, outcome |-> "trained"]

-----------------------------------------------------------------------------
(* _save_models, lines 120-142: never raises *)

\* the metadata dict is written without its 'ensemble_weights' entry
SavedMetadata_NoWeights(e) ==
  [ version |-> e.model_version,
    last_trained |-> e.last_trained,
    feature_names |-> e.feature_names,
    performance_metrics |-> e.performance_metrics ]

SavedMetadata(e) ==
  [ version |-> e.model_version,
    last_trained |-> e.last_trained,
    feature_names |-> e.feature_names,
    ensemble_weights |-> e.ensemble_weights,
    performance_metrics |-> e.performance_metrics ]

\* what the i-th joblib.dump writes
DumpedObject(e, i) ==
  CASE i = 1 -> e.lightgbm_model
    [] i = 2 -> e.logistic_model
    [] i = 3 -> e.random_forest_model
    [] i = 4 -> e.scaler
    [] i = 5 -> SavedMetadata(e)

FileIndex(f) == CHOOSE i \in 1..5 : FileOrder[i] = f

\* failAt: 0 = every dump completes; k = the k-th dump raises (or the process
\* is stopped there), leaving its file untouched or, if `truncates`, truncated
SaveModels(e, d, failAt, truncates) ==
  [f \in Files |->
     LET i == FileIndex(f) IN
     IF failAt = 0 \/ i < failAt THEN FileOf(DumpedObject(e, i))
     ELSE IF i = failAt /\ truncates THEN TruncatedFile
     ELSE d[f]]

-----------------------------------------------------------------------------
(* _initialize_demo_mode, lines 278-286 *)

\* the version is left as it was
InitializeDemoMode_KeepsVersion(e, now) ==
  [e EXCEPT !.is_trained = FALSE,
            !.last_trained = Some(now),
            !.feature_names = NameList("demo_feature_", NDemoFeatures)]

InitializeDemoMode(e, now) ==
  [e EXCEPT !.is_trained = FALSE,
            !.model_version = "demo-1.0.0",
            !.last_trained = Some(now),
            !.feature_names = NameList("demo_feature_", NDemoFeatures)]

-----------------------------------------------------------------------------
(* _train_initial_models, lines 144-165: train, then save; raises when the   *)
(* data generation or the training raises                                    *)

TrainInitialModels(e, d, failAt, evalFail, saveFailAt, truncates, now) ==
  IF failAt = 1 THEN [engine |-> e, disk |-> d, outcome |-> "failed"]
  ELSE LET t == TrainEnsemble(e, failAt, evalFail, now) IN
       IF t.outcome = "failed"
       THEN [engine |-> t.engine, disk |-> d, outcome |-> "failed"]
       ELSE [engine |-> t.engine,
             disk |-> SaveModels(t.engine, d, saveFailAt, truncates),
             outcome |-> "trained"]

-----------------------------------------------------------------------------
(* initialize, lines 62-81: never raises *)

\* the engine and the directory after initialize(), with what each stage did
InitializeEngine(e, d, mkdirFail, loadFailAt, trainFailAt, evalFail, saveFailAt, truncates, now) ==
  IF mkdirFail
  THEN [engine |-> InitializeDemoMode(e, now), disk |-> d,
        load |-> "skipped", train |-> "skipped"]
  ELSE LET l == LoadModels(e, d, loadFailAt) IN
       IF l.engine.is_trained
       THEN [engine |-> l.engine, disk |-> d,
             load |-> l.outcome, train |-> "skipped"]
       ELSE LET t == TrainInitialModels(l.engine, d, trainFailAt, evalFail,
                                        saveFailAt, truncates, now) IN
            IF t.outcome = "failed"
            THEN [engine |-> InitializeDemoMode(t.engine, now), disk |-> t.disk,
                  load |-> l.outcome, train |-> "failed"]
            ELSE [engine |-> t.engine, disk |-> t.disk,
                  load |-> l.outcome, train |-> "trained"]

-----------------------------------------------------------------------------
(* Requests and results of predict *)

\* the features argument: absent, or a ModelFeatures object (its elo field)
FeatureInputs == {None, Some([home_team_elo |-> 1500])}

\* the calls made: game_id, features, prediction_types (None or [] are falsy,
\* here <<>>) and include_explanation
Request(g, f, kinds, expl) ==
  [game_id |-> g, features |-> f, prediction_types |-> kinds, include_explanation |-> expl]

Requests ==
  { Request("g1", None, <<>>, TRUE),
    Request("g1", None, <<"win_probability", "spread">>, FALSE),
    Request("g1", Some([home_team_elo |-> 1500]), <<"spread">>, TRUE),
    Request("g2", None, <<"total_points", "player_performance">>, FALSE) }

GameIds == {r.game_id : r \in Requests}

\* the seeds a process can start with: str hashes are salted per process
HashSeeds == {0, 1}

\* str(features) and Python's hash of that string in a process with that seed
StrOf(features) ==
  IF features = None THEN <<"None">>
  ELSE <<"home_team_elo=", features[1].home_team_elo>>

HashOf(seed, str) ==
  IF Len(str) = 1 THEN (7919 + seed * 104729) % 65536
  ELSE (str[2] * 31 + 17 + seed * 104729) % 65536

\* f"prediction:{game_id}:{hash(str(features))}", line 319
CacheKey(seed, game_id, features) == <<"prediction", game_id, HashOf(seed, StrOf(features))>>

CacheKeys == {CacheKey(s, g, f) : s \in HashSeeds, g \in GameIds, f \in FeatureInputs}

-----------------------------------------------------------------------------
(* Floating point: a float is the integer of its value in 1/Grid, with at    *)
(* most MantissaBits significant bits; every operation rounds its exact     *)
(* result to the nearest float, ties to even, as IEEE 754 does              *)

Pow2(k) == 2^k

GridBits == 2 * MantissaBits + 4
Grid == Pow2(GridBits)

\* the least significand of a normal float, 2^(MantissaBits-1)
MinSignificand == Pow2(MantissaBits - 1)

\* the spacing of the floats around the rational num/den: the largest power of
\* two q with q * 2^(MantissaBits-1) <= num/den, and one grid unit below that;
\* the powers that fit are 2^1 .. 2^n, so q is 2^n
Quantum(num, den) ==
  Pow2(Cardinality({k \in 1..(GridBits - MantissaBits + 3) :
                      Pow2(k) * MinSignificand * den <= num}))

\* a/b rounded to the nearest integer, ties to even
RoundHalfEven(a, b) ==
  LET f == a \div b
      r == a % b
  IN IF 2 * r < b THEN f
     ELSE IF 2 * r > b THEN f + 1
     ELSE IF f % 2 = 0 THEN f ELSE f + 1

\* num/den rounded to a multiple of q
RoundTo(q, num, den) == q * RoundHalfEven(num, den * q)

\* the float nearest to num/den (num >= 0, den > 0)
Round(num, den) == RoundTo(Quantum(num, den), num, den)

\* the floats from 0.0 to 1.0
Floats ==
  (0..Pow2(MantissaBits))
    \cup {m * Pow2(k) : m \in Pow2(MantissaBits - 1)..Pow2(MantissaBits),
                        k \in 0..(GridBits - MantissaBits)}

FAdd(a, b) == Round(a + b, 1)
FDiv(a, n) == Round(a, n)
FMul(a, b) == Round(a * b, Grid)
\* |a - b|; rounding is symmetric, and only squares of differences are used
FAbsDiff(a, b) == Round(IF a >= b THEN a - b ELSE b - a, 1)

\* the float nearest to the square root of a float a <= 1.0: the root lies
\* between a float lo and the next one, lo + q, on the side of their midpoint
\* that the squares tell
\* the float after r
NextFloat(r) == r + Quantum(r, 1)

\* the root of n/Grid^2 lies between the floats lo and hi: the one it is
\* nearer to, by the squares, and on a tie the one with the even significand
NearerRoot(lo, hi, n) ==
  IF lo * lo = n THEN lo
  ELSE IF 4 * n < (lo + hi) * (lo + hi) THEN lo
  ELSE IF 4 * n > (lo + hi) * (lo + hi) THEN hi
  ELSE IF (lo \div (hi - lo)) % 2 = 0 THEN lo ELSE hi

\* the root of n/Grid^2 is at least lo and less than hi
Brackets(lo, hi, n) == lo * lo <= n /\ hi * hi > n

\* the greatest float whose square is at most n/Grid^2
FloorRoot(n) == CHOOSE r \in Floats : Brackets(r, NextFloat(r), n)

RootOf(lo, n) == NearerRoot(lo, NextFloat(lo), n)

\* the float nearest to the square root of a float a <= 1.0
FSqrt(a) == RootOf(FloorRoot(a * Grid), a * Grid)

\* probabilities, confidences and spreads are integers in 1/Scale, so that a
\* weight in 1/10 times a float is exact; Real(n, d) is n/d in that unit
Scale == 10 * Grid
Real(n, d) == (n * Scale) \div d

\* one evaluation's draws: the values np.random.uniform returns to the
\* win-probability call (0.3..0.7, 0.6..0.8), to the call made by
\* _predict_spread, and to _predict_total (200..240, 0.6..0.8), in 1/Scale
\* (totals in points); and the three models' probabilities of the positive
\* class for the vector, as floats
Draw(wp, wc, sp, sc, t, tc, out) ==
  [ placeholder_prob |-> wp, placeholder_conf |-> wc,
    spread_prob |-> sp, spread_conf |-> sc,
    total |-> t, total_conf |-> tc, outputs |-> out ]

Draws ==
  { Draw(Real(3, 10), Real(6, 10), Real(3, 10), Real(6, 10), 200, Real(6, 10),
         <<Grid \div 2, Grid \div 2, Grid \div 2>>),
    Draw(Real(11, 16), Real(3, 4), Real(3, 10), Real(6, 10), 240, Real(3, 4),
         <<0, Grid, 0>>) }

\* the draws of _generate_demo_prediction: probability in 0.35..0.65 and
\* confidence in 0.6..0.85
DemoDraws == { <<Real(35, 100), Real(6, 10)>>, <<Real(5, 8), Real(13, 16)>> }

\* widths of the vector the feature builder returns
VectorWidths == {NFeatures, NDemoFeatures}

-----------------------------------------------------------------------------
(* _predict_win_probability, lines 382-415: never raises *)

\* np.std of three floats (line 408): the mean is the sum, added in order,
\* divided by 3; the result is the square root of the mean of the squared
\* differences from it
Mean3(p) == FDiv(FAdd(FAdd(p[1], p[2]), p[3]), 3)

FSquare(x) == FMul(x, x)

SquaredDeviations(p, mean) == [i \in 1..3 |-> FSquare(FAbsDiff(p[i], mean))]

NpStd(p) == FSqrt(Mean3(SquaredDeviations(p, Mean3(p))))

Max(a, b) == IF a >= b THEN a ELSE b

\* 1.0 - x as a float; -1.0 stands for every negative difference (twice the
\* deviation of three values of [0, 1] stays below 1.0)
OneMinus(x) == IF x > Grid THEN 0 - Grid ELSE Round(Grid - x, 1)

\* the agreement without its floor: 1.0 - (std_dev * 2)
AgreementConfidence_NoFloor(outputs) == OneMinus(2 * NpStd(outputs))

\* max(0.5, 1.0 - (std_dev * 2)), line 409, as a float
AgreementConfidence(outputs) == Max(Grid \div 2, OneMinus(2 * NpStd(outputs)))

\* whether estimator m accepts a vector of that width (all bundles are trained
\* on NFeatures columns)
Usable(m, width) == m.cls # "NoneType" /\ m.fitted /\ width = NFeatures

\* draw: the values the random generator and the models would produce.  A
\* scaler or model call raises on None, on an unfitted estimator and on a
\* vector of another width; a missing weight raises KeyError.
\* lines 391-411 raise: a transform or predict_proba call fails (392-397), or
\* a weight is missing from the dict (400-404)
InferenceRaises(e, width) ==
  \/ ~Usable(e.scaler, width)
  \/ ~Usable(e.lightgbm_model, width)
  \/ ~Usable(e.logistic_model, width)
  \/ ~Usable(e.random_forest_model, width)
  \/ ~(ModelIds \subseteq DOMAIN e.ensemble_weights)

PredictWinProbability(e, width, draw) ==
  IF ~e.is_trained
  THEN [probability |-> draw.placeholder_prob, confidence |-> draw.placeholder_conf]
  ELSE IF InferenceRaises(e, width)
       THEN [probability |-> Real(1, 2), confidence |-> Real(1, 2)]
       ELSE [probability |-> e.ensemble_weights["lightgbm"] * draw.outputs[1]
                             + e.ensemble_weights["logistic"] * draw.outputs[2]
                             + e.ensemble_weights["random_forest"] * draw.outputs[3],
             confidence |-> 10 * AgreementConfidence(draw.outputs)]

\* the spread is the distance of the probability from 0.5, without its sign
PredictSpread_Unsigned(e, width, draw) ==
  LET again == [draw EXCEPT !.placeholder_prob = draw.spread_prob,
                            !.placeholder_conf = draw.spread_conf]
      w == PredictWinProbability(e, width, again)
      spread == IF w.probability > Real(1, 2) THEN (w.probability - Real(1, 2)) * 20
                ELSE (Real(1, 2) - w.probability) * 20
  IN [spread |-> spread, confidence |-> w.confidence]

(* _predict_spread, lines 417-431; the spread is in 1/Scale of a point *)
PredictSpread(e, width, draw) ==
  LET again == [draw EXCEPT !.placeholder_prob = draw.spread_prob,
                            !.placeholder_conf = draw.spread_conf]
      w == PredictWinProbability(e, width, again)
      spread == IF w.probability > Real(1, 2) THEN (w.probability - Real(1, 2)) * 20
                ELSE (w.probability - Real(1, 2)) * 20
  IN [spread |-> spread, confidence |-> w.confidence]

(* _predict_total, lines 433-442 *)
PredictTotal(draw) == [total |-> draw.total, confidence |-> draw.total_conf]

-----------------------------------------------------------------------------
(* _generate_explanation, lines 444-471: never raises.  A formatted factor   *)
(* f"{label}: {importance:.2f}" is the pair <<label, importance>>.           *)

\* the factors are formatted from as many importances as there are
GenerateExplanation_TopAvailable(e) ==
  LET fi == GetFeatureImportance(e)
      labels == <<"Team strength differential", "Recent form", "Home court advantage">>
      n == IF Len(fi) < 3 THEN Len(fi) ELSE 3
  IN [ main_factors |-> [i \in 1..n |-> <<labels[i], fi[i].importance>>],
       supporting_factors |-> <<>>,
       risk_factors |-> <<"Model uncertainty", "Limited recent data">>,
       confidence_reasoning |->
         "Based on ensemble model agreement and historical accuracy" ]

GenerateExplanation(e) ==
  LET fi == GetFeatureImportance(e) IN
  IF Len(fi) >= 3
  THEN [ main_factors |-> << <<"Team strength differential", fi[1].importance>>,
                            <<"Recent form", fi[2].importance>>,
                            <<"Home court advantage", fi[3].importance>> >>,
         supporting_factors |-> <<>>,
         risk_factors |-> <<"Model uncertainty", "Limited recent data">>,
         confidence_reasoning |->
           "Based on ensemble model agreement and historical accuracy" ]
  ELSE [ main_factors |-> <<"Team performance analysis", "Historical matchup data">>,
         supporting_factors |-> <<"Recent player performance", "Home/away records">>,
         risk_factors |-> <<"Injury reports", "Weather conditions">>,
         confidence_reasoning |->
           "Based on available data and model performance" ]

-----------------------------------------------------------------------------
(* _generate_demo_prediction, lines 473-506 *)

DemoExplanation ==
  [ main_factors |-> <<"Demo mode - statistical analysis", "Team performance metrics">>,
    supporting_factors |-> <<"Recent game outcomes", "Player availability">>,
    risk_factors |-> <<"Limited data in demo mode">>,
    confidence_reasoning |-> "Demo prediction with mock confidence" ]

\* the demo result carries the engine's initial version
GenerateDemoPrediction_PlainVersion(game_id, dd) ==
  [ game_id |-> game_id,
    predictions |-> [k \in {"win_probability"} |->
                       [probability |-> dd[1], confidence |-> dd[2]]],
    explanation |-> Some(DemoExplanation),
    model_info |-> [ version |-> "1.0.0", last_trained |-> None,
                     ensemble_weights |-> EmptyDict ],
    confidence |-> dd[2] ]

\* the result's overall confidence is the constant 0.5 of an assembled result
\* without a win probability
GenerateDemoPrediction_HalfConfidence(game_id, dd) ==
  [ game_id |-> game_id,
    predictions |-> [k \in {"win_probability"} |->
                       [probability |-> dd[1], confidence |-> dd[2]]],
    explanation |-> Some(DemoExplanation),
    model_info |-> [ version |-> "demo-1.0.0", last_trained |-> None,
                     ensemble_weights |-> EmptyDict ],
    confidence |-> Real(1, 2) ]

GenerateDemoPrediction(game_id, dd) ==
  [ game_id |-> game_id,
    predictions |-> [k \in {"win_probability"} |->
                       [probability |-> dd[1], confidence |-> dd[2]]],
    explanation |-> Some(DemoExplanation),
    model_info |-> [ version |-> "demo-1.0.0", last_trained |-> None,
                     ensemble_weights |-> EmptyDict ],
    confidence |-> dd[2] ]

-----------------------------------------------------------------------------
(* predict, lines 333-369: the payloads, the explanation and the result *)

KindsOf(kinds) == {kinds[i] : i \in 1..Len(kinds)}

\* lines 336-351: kinds other than the three handled ones add no payload
Predictions(e, kinds, width, draw) ==
  LET asked == IF kinds = <<>> THEN {"win_probability"} ELSE KindsOf(kinds)
      handled == asked \cap {"win_probability", "spread", "total_points"}
  IN [k \in handled |->
        CASE k = "win_probability" -> PredictWinProbability(e, width, draw)
          [] k = "spread" -> PredictSpread(e, width, draw)
          [] k = "total_points" -> PredictTotal(draw)]

\* how the calls of _predict_win_probability made for a request end (one per
\* win_probability and spread payload, all on the same engine and vector):
\* with the placeholder (385-389), with the error logged at line 414, or with
\* the ensemble's score
InferenceOutcome(e, kinds, width) ==
  IF (IF kinds = <<>> THEN {"win_probability"} ELSE KindsOf(kinds))
       \cap {"win_probability", "spread"} = {}
  THEN "none"
  ELSE IF ~e.is_trained THEN "placeholder"
  ELSE IF InferenceRaises(e, width) THEN "raised" ELSE "scored"

\* without a win probability the overall confidence is the spread's, if any
AssembleResult_SpreadConfidence(e, req, width, draw) ==
  LET predictions == Predictions(e, req.prediction_types, width, draw) IN
  [ game_id |-> req.game_id,
    predictions |-> predictions,
    explanation |-> IF req.include_explanation THEN Some(GenerateExplanation(e))
                    ELSE None,
    model_info |-> [ version |-> e.model_version, last_trained |-> e.last_trained,
                     ensemble_weights |-> e.ensemble_weights ],
    confidence |-> IF "win_probability" \in DOMAIN predictions
                   THEN predictions["win_probability"].confidence
                   ELSE IF "spread" \in DOMAIN predictions
                   THEN predictions["spread"].confidence ELSE Real(1, 2) ]

\* lines 353-369; created_at (the time of the call) is left out of the result
AssembleResult(e, req, width, draw) ==
  LET predictions == Predictions(e, req.prediction_types, width, draw) IN
  [ game_id |-> req.game_id,
    predictions |-> predictions,
    explanation |-> IF req.include_explanation THEN Some(GenerateExplanation(e))
                    ELSE None,
    model_info |-> [ version |-> e.model_version, last_trained |-> e.last_trained,
                     ensemble_weights |-> e.ensemble_weights ],
    confidence |-> IF "win_probability" \in DOMAIN predictions
                   THEN predictions["win_probability"].confidence ELSE Real(1, 2) ]

-----------------------------------------------------------------------------
(* predict, lines 309-380, as a coroutine: it is suspended while it awaits   *)
(* cache_manager.get, feature_builder.build_from_game_id and                 *)
(* cache_manager.set, and runs without interruption in between               *)

IsDemoVersion(v) == v = "demo-1.0.0"

TaskIds == 1..MaxTasks

\* a coroutine: where it is suspended, its arguments, the result it has built
\* or returned, how it ended ("returned" or "raised"), which way the result
\* was produced, the step that raised, if one did, and how scoring ended
IdleTask ==
  [ pc |-> "idle", req |-> None, result |-> None, outcome |-> "none",
    path |-> "none", failed |-> "none", inference |-> "none" ]

\* the handler logs the exception and raises it again
PredictExcept_Reraises(task, step, dd) ==
  [task EXCEPT !.pc = "done", !.outcome = "raised", !.path = "fallback",
               !.failed = step]

\* lines 377-380: any exception ends in the demo prediction for the game
PredictExcept(task, step, dd) ==
  [task EXCEPT !.pc = "done",
               !.result = Some(GenerateDemoPrediction(task.req[1].game_id, dd)),
               !.outcome = "returned", !.path = "fallback", !.failed = step]

\* lines 333-375 once the feature vector is there: build the result, then
\* await the cache write when there is a cache
Computed(task, e, width, draw, assembleFail, dd) ==
  IF assembleFail THEN PredictExcept(task, "assemble", dd)
  ELSE LET result == AssembleResult(e, task.req[1], width, draw)
           how == InferenceOutcome(e, task.req[1].prediction_types, width) IN
       IF e.cache_manager
       THEN [task EXCEPT !.pc = "cache_set", !.result = Some(result),
                         !.inference = how]
       ELSE [task EXCEPT !.pc = "done", !.result = Some(result), !.inference = how,
                         !.outcome = "returned", !.path = "assembled"]

\* lines 326-331: features given are converted at once, otherwise the
\* coroutine awaits the feature builder
AfterCacheMiss(task, e, width, draw, assembleFail, dd) ==
  IF task.req[1].features # None
  THEN Computed(task, e, width, draw, assembleFail, dd)
  ELSE [task EXCEPT !.pc = "build"]

\* what the environment decides while the result is computed: the width of
\* the vector, the draws, whether building the PredictionResult raises, and
\* the draws of the demo fallback (used only when something raised)
Evaluations ==
  { [width |-> w, draw |-> d, assembleFail |-> a, dd |-> dd] :
      w \in VectorWidths, d \in Draws, a \in BOOLEAN, dd \in DemoDraws }

\* the evaluations that differ in what they can change: the demo draws matter
\* only when the assembly raises, and nothing else matters then
Relevant(ev) ==
  /\ ev.assembleFail => (ev.width = NFeatures /\ ev.draw = CHOOSE d \in Draws : TRUE)
  /\ ~ev.assembleFail => ev.dd = CHOOSE dd \in DemoDraws : TRUE

\* predict() is called: lines 318-321.  The new coroutine takes the first free
\* slot.
PredictCall(t) ==
  /\ tasks[t].pc = "idle"
  /\ \A u \in 1..(t - 1) : tasks[u].pc # "idle"
  /\ calls < MaxCalls
  /\ \E req \in Requests :
       LET task == [IdleTask EXCEPT !.req = Some(req)] IN
       IF engine.cache_manager
       THEN tasks' = [tasks EXCEPT ![t] = [task EXCEPT !.pc = "cache_get"]]
       ELSE IF req.features = None
       THEN tasks' = [tasks EXCEPT ![t] = [task EXCEPT !.pc = "build"]]
       ELSE \E ev \in Evaluations :
              /\ Relevant(ev)
              /\ tasks' = [tasks EXCEPT ![t] =
                   AfterCacheMiss(task, engine, ev.width, ev.draw, ev.assembleFail, ev.dd)]
  /\ calls' = calls + 1
  /\ UNCHANGED <<engine, disk, cache, clock, phase, init_trace, reply, hashseed>>

\* a cached result counts as a hit only when it carries the engine's current
\* last_trained
CacheGetDone_ChecksFreshness(t) ==
  /\ tasks[t].pc = "cache_get"
  /\ LET task == tasks[t]
         key == CacheKey(hashseed, task.req[1].game_id, task.req[1].features)
         fresh == /\ cache[key] # None
                  /\ cache[key][1].value.model_info.last_trained = engine.last_trained
     IN \/ \E dd \in DemoDraws :
             tasks' = [tasks EXCEPT ![t] = PredictExcept(task, "cache_get", dd)]
        \/ /\ fresh
           /\ tasks' = [tasks EXCEPT ![t] =
                [task EXCEPT !.pc = "done", !.result = Some(cache[key][1].value),
                             !.outcome = "returned", !.path = "cache_hit"]]
        \/ /\ ~fresh
           /\ tasks' = [tasks EXCEPT ![t] = [task EXCEPT !.pc = "build"]]
  /\ UNCHANGED <<engine, disk, cache, clock, calls, phase, init_trace, reply, hashseed>>

\* cache_manager.get answers: lines 321-331
CacheGetDone(t) ==
  /\ tasks[t].pc = "cache_get"
  /\ LET task == tasks[t]
         key == CacheKey(hashseed, task.req[1].game_id, task.req[1].features)
     IN \/ \E dd \in DemoDraws :
             tasks' = [tasks EXCEPT ![t] = PredictExcept(task, "cache_get", dd)]
        \/ /\ cache[key] # None
           /\ tasks' = [tasks EXCEPT ![t] =
                [task EXCEPT !.pc = "done", !.result = Some(cache[key][1].value),
                             !.outcome = "returned", !.path = "cache_hit"]]
        \/ /\ cache[key] = None
           /\ task.req[1].features = None
           /\ tasks' = [tasks EXCEPT ![t] = [task EXCEPT !.pc = "build"]]
        \/ /\ cache[key] = None
           /\ task.req[1].features # None
           /\ \E ev \in Evaluations :
                /\ Relevant(ev)
                /\ tasks' = [tasks EXCEPT ![t] =
                     AfterCacheMiss(task, engine, ev.width, ev.draw, ev.assembleFail, ev.dd)]
  /\ UNCHANGED <<engine, disk, cache, clock, calls, phase, init_trace, reply, hashseed>>

\* predict loads the stored bundle when it finds the engine untrained
BuildDone_LazyLoad(t) ==
  /\ tasks[t].pc = "build"
  /\ \E ev \in Evaluations :
       /\ Relevant(ev)
       /\ tasks' = [tasks EXCEPT ![t] =
            Computed(tasks[t], engine, ev.width, ev.draw, ev.assembleFail, ev.dd)]
  /\ engine' = IF engine.is_trained THEN engine ELSE LoadModels(engine, disk, 0).engine
  /\ UNCHANGED <<disk, cache, clock, calls, phase, init_trace, reply, hashseed>>

\* a builder failure in one coroutine ends the coroutines beside it as well
BuildDone_CancelsSiblings(t) ==
  /\ tasks[t].pc = "build"
  /\ \/ \E dd \in DemoDraws :
          tasks' = [u \in TaskIds |->
                      IF tasks[u].pc \in {"cache_get", "build", "cache_set"}
                      THEN PredictExcept(tasks[u], "build", dd) ELSE tasks[u]]
     \/ \E ev \in Evaluations :
          /\ Relevant(ev)
          /\ tasks' = [tasks EXCEPT ![t] =
               Computed(tasks[t], engine, ev.width, ev.draw, ev.assembleFail, ev.dd)]
  /\ UNCHANGED <<engine, disk, cache, clock, calls, phase, init_trace, reply, hashseed>>

\* the handler stores the demo prediction under the call's key
BuildDone_CachesFallback(t) ==
  /\ tasks[t].pc = "build"
  /\ \/ \E dd \in DemoDraws :
          LET done == PredictExcept(tasks[t], "build", dd)
              key == CacheKey(hashseed, done.req[1].game_id, done.req[1].features)
          IN /\ tasks' = [tasks EXCEPT ![t] = done]
             /\ cache' = [cache EXCEPT ![key] =
                            Some([value |-> done.result[1], ttl |-> CacheTTL])]
     \/ /\ \E ev \in Evaluations :
             /\ Relevant(ev)
             /\ tasks' = [tasks EXCEPT ![t] =
                  Computed(tasks[t], engine, ev.width, ev.draw, ev.assembleFail, ev.dd)]
        /\ UNCHANGED cache
  /\ UNCHANGED <<engine, disk, clock, calls, phase, init_trace, reply, hashseed>>

\* feature_builder.build_from_game_id answers: lines 331-373
BuildDone(t) ==
  /\ tasks[t].pc = "build"
  /\ \/ \E dd \in DemoDraws :
          tasks' = [tasks EXCEPT ![t] = PredictExcept(tasks[t], "build", dd)]
     \/ \E ev \in Evaluations :
          /\ Relevant(ev)
          /\ tasks' = [tasks EXCEPT ![t] =
               Computed(tasks[t], engine, ev.width, ev.draw, ev.assembleFail, ev.dd)]
  /\ UNCHANGED <<engine, disk, cache, clock, calls, phase, init_trace, reply, hashseed>>

\* the write keeps an entry that is already there
CacheSetDone_KeepsFirst(t) ==
  /\ tasks[t].pc = "cache_set"
  /\ \E setFail \in BOOLEAN, dd \in DemoDraws :
       LET task == tasks[t]
           key == CacheKey(hashseed, task.req[1].game_id, task.req[1].features)
       IN IF setFail
          THEN /\ tasks' = [tasks EXCEPT ![t] = PredictExcept(task, "cache_set", dd)]
               /\ UNCHANGED cache
          ELSE /\ tasks' = [tasks EXCEPT ![t] =
                              [task EXCEPT !.pc = "done", !.outcome = "returned",
                                           !.path = "assembled"]]
               /\ cache' = IF cache[key] # None THEN cache
                           ELSE [cache EXCEPT ![key] =
                                   Some([value |-> task.result[1], ttl |-> CacheTTL])]
  /\ UNCHANGED <<engine, disk, clock, calls, phase, init_trace, reply, hashseed>>

\* cache_manager.set answers: lines 373-375
CacheSetDone(t) ==
  /\ tasks[t].pc = "cache_set"
  /\ \E setFail \in BOOLEAN, dd \in DemoDraws :
       LET task == tasks[t]
           key == CacheKey(hashseed, task.req[1].game_id, task.req[1].features)
       IN IF setFail
          THEN /\ tasks' = [tasks EXCEPT ![t] = PredictExcept(task, "cache_set", dd)]
               /\ UNCHANGED cache
          ELSE /\ tasks' = [tasks EXCEPT ![t] =
                              [task EXCEPT !.pc = "done", !.outcome = "returned",
                                           !.path = "assembled"]]
               /\ cache' = [cache EXCEPT ![key] =
                              Some([value |-> task.result[1], ttl |-> CacheTTL])]
  /\ UNCHANGED <<engine, disk, clock, calls, phase, init_trace, reply, hashseed>>

\* the caller takes the result
TaskReturn(t) ==
  /\ tasks[t].pc = "done"
  /\ tasks' = [tasks EXCEPT ![t] = IdleTask]
  /\ UNCHANGED <<engine, disk, cache, clock, calls, phase, init_trace, reply, hashseed>>

\* the ttl of an entry runs out
CacheExpire(key) ==
  /\ cache[key] # None
  /\ cache' = [cache EXCEPT ![key] = None]
  /\ UNCHANGED <<engine, disk, tasks, clock, calls, phase, init_trace, reply, hashseed>>

-----------------------------------------------------------------------------
(* predict_batch, lines 508-520, called by the endpoint of main.py 156-177 *)

\* asyncio.gather(*tasks, return_exceptions=True): one entry per coroutine, in
\* the order of the requests; the entry of a coroutine that raised is the
\* exception
Gather(ts, n) ==
  [i \in 1..n |-> IF ts[i].outcome = "raised" THEN [exception |-> ts[i].failed]
                  ELSE ts[i].result[1]]

\* main.py lines 168-177: p.predictions of an exception entry raises, which
\* the endpoint answers with status 500
BatchResponse(predictions, n) ==
  IF \E i \in 1..n : "predictions" \notin DOMAIN predictions[i]
  THEN [status |-> 500, body |-> None]
  ELSE [status |-> 200,
        body |-> Some([ predictions |-> predictions,
                        total_games |-> n,
                        successful_predictions |->
                          Cardinality({i \in 1..n : DOMAIN predictions[i].predictions # {}}) ])]

\* the coroutines of the batch that is in flight or has been gathered
InBatch(t) == tasks[t].pc # "idle"
BatchSize == Cardinality({t \in TaskIds : InBatch(t)})

\* The endpoint, which serves once the startup of lifespan has completed,
\* calls predict_batch with n requests: gather starts the n coroutines in
\* order and each runs to its first await, the cache lookup of line 321 (the
\* engine of main.py always has a cache manager)
BatchCall ==
  /\ phase = "ready"
  /\ \A t \in TaskIds : tasks[t].pc = "idle"
  /\ calls < MaxCalls
  /\ engine.cache_manager
  /\ \E n \in 1..MaxTasks :
       \E reqs \in [1..n -> Requests] :
         tasks' = [t \in TaskIds |->
                     IF t <= n
                     THEN [IdleTask EXCEPT !.req = Some(reqs[t]), !.pc = "cache_get"]
                     ELSE IdleTask]
  /\ calls' = calls + 1
  /\ UNCHANGED <<engine, disk, cache, clock, phase, init_trace, reply, hashseed>>

\* every coroutine has ended: gather returns and the endpoint answers
BatchReturn ==
  /\ \E t \in TaskIds : tasks[t].pc = "done"
  /\ \A t \in TaskIds : tasks[t].pc \in {"idle", "done"}
  /\ reply' = [ op |-> "predict_batch",
                value |-> Some(BatchResponse(Gather(tasks, BatchSize), BatchSize)) ]
  /\ tasks' = [t \in TaskIds |->
                 IF tasks[t].pc = "done" THEN [tasks[t] EXCEPT !.pc = "gathered"]
                 ELSE tasks[t]]
  /\ UNCHANGED <<engine, disk, cache, clock, calls, phase, init_trace, hashseed>>

-----------------------------------------------------------------------------
(* The engine's lifecycle: main.py lifespan, lines 50-56 *)

NoTrace == [load |-> "none", train |-> "none"]
NoReply == [op |-> "none", value |-> None]

\* await prediction_engine.initialize(): it awaits nothing that suspends, so it
\* is one step.  The inputs say which library call raises.
Initialize ==
  /\ phase = "constructed"
  /\ \E mkdirFail \in BOOLEAN, loadFailAt \in 0..5, trainFailAt \in TrainFailures,
        evalFail \in BOOLEAN, saveFailAt \in 0..5, truncates \in BOOLEAN :
       /\ mkdirFail => (loadFailAt = 0 /\ trainFailAt = 0)
       /\ trainFailAt # 0 => (~evalFail /\ saveFailAt = 0)
       /\ saveFailAt = 0 => ~truncates
       /\ LET r == InitializeEngine(engine, disk, mkdirFail, loadFailAt, trainFailAt,
                                    evalFail, saveFailAt, truncates, clock + 1)
          IN /\ engine' = r.engine
             /\ disk' = r.disk
             /\ init_trace' = [load |-> r.load, train |-> r.train]
  /\ clock' = clock + 1
  /\ phase' = "ready"
  /\ UNCHANGED <<cache, tasks, calls, reply, hashseed>>

\* the process stops and a new one constructs the engine (lines 51-54): the
\* directory and the cache outlive it, its coroutines do not
Restart ==
  /\ phase = "ready"
  /\ clock < MaxClock
  /\ engine' = EngineInit
  /\ tasks' = [t \in TaskIds |-> IdleTask]
  /\ phase' = "constructed"
  /\ init_trace' = NoTrace
  /\ reply' = NoReply
  /\ hashseed' \in HashSeeds
  /\ UNCHANGED <<disk, cache, clock, calls>>

(* retrain_model, lines 554-560 *)
RetrainModel ==
  /\ calls < MaxCalls
  /\ calls' = calls + 1
  /\ engine' = [engine EXCEPT !.last_trained = Some(clock + 1)]
  /\ clock' = clock + 1
  /\ UNCHANGED <<disk, cache, tasks, phase, init_trace, reply, hashseed>>

(* get_performance_metrics, lines 522-537 *)
GetPerformanceMetrics ==
  /\ calls < MaxCalls
  /\ calls' = calls + 1
  /\ reply' = [ op |-> "get_performance_metrics",
                value |-> IF engine.performance_metrics # None
                          THEN engine.performance_metrics
                          ELSE Some([ weights_used |-> EmptyDict,
                                      feature_importance |-> GetFeatureImportance(engine),
                                      last_trained |-> IF engine.last_trained # None
                                                       THEN engine.last_trained[1]
                                                       ELSE clock,
                                      model_version |-> engine.model_version ]) ]
  /\ UNCHANGED <<engine, disk, cache, tasks, clock, phase, init_trace, hashseed>>

(* get_feature_info, lines 539-548 *)
GetFeatureInfo ==
  /\ calls < MaxCalls
  /\ calls' = calls + 1
  /\ reply' = [ op |-> "get_feature_info",
                value |-> Some([ feature_names |-> engine.feature_names,
                                 feature_importance |-> GetFeatureImportance(engine) ]) ]
  /\ UNCHANGED <<engine, disk, cache, tasks, clock, phase, init_trace, hashseed>>

(* is_healthy, lines 550-552 *)
IsHealthy ==
  /\ calls < MaxCalls
  /\ calls' = calls + 1
  /\ reply' = [op |-> "is_healthy", value |-> Some(TRUE)]
  /\ UNCHANGED <<engine, disk, cache, tasks, clock, phase, init_trace, hashseed>>

-----------------------------------------------------------------------------
(* Specification *)

\* the directory when the first process starts: empty, or holding a complete
\* deployed bundle
InitialDisks == {EmptyDisk, DeployedDisk(Files, "nokey")}

InitWith(disks, seeds) ==
  /\ hashseed \in seeds
  /\ engine = EngineInit
  /\ disk \in disks
  /\ cache = [k \in CacheKeys |-> None]
  /\ tasks = [t \in TaskIds |-> IdleTask]
  /\ clock = 0
  /\ calls = 0
  /\ phase = "constructed"
  /\ init_trace = NoTrace
  /\ reply = NoReply

Init == InitWith(InitialDisks, HashSeeds)

\* requests arrive one after the other: predict is called when no other
\* predict is in flight
Sequential == \A t \in TaskIds : tasks[t].pc = "idle"

Next ==
  \/ Initialize
  \/ RetrainModel
  \/ GetPerformanceMetrics
  \/ GetFeatureInfo
  \/ IsHealthy
  \/ \E t \in TaskIds : Sequential /\ PredictCall(t)
  \/ \E t \in TaskIds : CacheGetDone(t)
  \/ \E t \in TaskIds : BuildDone(t)
  \/ \E t \in TaskIds : CacheSetDone(t)
  \/ \E t \in TaskIds : TaskReturn(t)
  \/ \E key \in CacheKeys : CacheExpire(key)

Spec == Init /\ [][Next]_vars

\* Spec is one process serving requests.  SpecStore is the model store over
\* several processes: the directory starts with any subset of the files of a
\* deployed bundle, and only the lifecycle operations run
AnyDisks ==
  {DeployedDisk(present, w) : present \in SUBSET Files, w \in DeployedKinds}

InitStore == InitWith(AnyDisks, {0})

NextStore ==
  \/ Initialize
  \/ Restart
  \/ RetrainModel

SpecStore == InitStore /\ [][NextStore]_vars

\* SpecBatch is one process serving a batch whose coroutines interleave with
\* each other and with a retrain
InitBatch == InitWith({DeployedDisk(Files, "nokey")}, {0})

NextBatch ==
  \/ Initialize
  \/ RetrainModel
  \/ BatchCall
  \/ \E t \in TaskIds : CacheGetDone(t)
  \/ \E t \in TaskIds : BuildDone(t)
  \/ \E t \in TaskIds : CacheSetDone(t)
  \/ BatchReturn
  \/ \E key \in CacheKeys : CacheExpire(key)

SpecBatch == InitBatch /\ [][NextBatch]_vars

\* SpecFlight is one process in which predict_batch is given requests that
\* share their cache key, (game_id, features), while the cache is empty, and
\* in which a later request arrives once a coroutine has returned
SameKey(ts) ==
  \A t, u \in TaskIds :
    (ts[t].pc # "idle" /\ ts[u].pc # "idle") =>
      CacheKey(hashseed, ts[t].req[1].game_id, ts[t].req[1].features)
        = CacheKey(hashseed, ts[u].req[1].game_id, ts[u].req[1].features)

NextFlight ==
  \/ Initialize
  \/ BatchCall /\ SameKey(tasks')
  \/ \E t \in TaskIds : phase = "ready" /\ PredictCall(t)
  \/ \E t \in TaskIds : CacheGetDone(t)
  \/ \E t \in TaskIds : BuildDone(t)
  \/ \E t \in TaskIds : CacheSetDone(t)
  \/ \E t \in TaskIds : TaskReturn(t)
  \/ \E key \in CacheKeys : CacheExpire(key)

SpecFlight == InitBatch /\ [][NextFlight]_vars

-----------------------------------------------------------------------------
(* _save_models and _load_models on their own: the engine saves its bundle, *)
(* and a second, new engine object on the same model path loads it          *)

\* await engine._save_models() on a trained engine; the reply says whether
\* every dump completed (the log line of 139)
SaveModelsCall ==
  /\ phase = "ready"
  /\ engine.is_trained
  /\ calls < MaxCalls
  /\ calls' = calls + 1
  /\ \E failAt \in 0..5, truncates \in BOOLEAN :
       /\ failAt = 0 => ~truncates
       /\ disk' = SaveModels(engine, disk, failAt, truncates)
       /\ reply' = [op |-> "_save_models", value |-> Some([completed |-> failAt = 0])]
  /\ UNCHANGED <<engine, cache, tasks, clock, phase, init_trace, hashseed>>

\* fresh = PredictionEngine(model_path); await fresh._load_models(): the
\* reply is the new engine object and what the load did
LoadModelsCall ==
  /\ phase = "ready"
  /\ \E failAt \in 0..5 :
       reply' = [op |-> "_load_models", value |-> Some(LoadModels(EngineInit, disk, failAt))]
  /\ UNCHANGED <<engine, disk, cache, tasks, clock, calls, phase, init_trace, hashseed>>

NextRoundTrip ==
  \/ Initialize
  \/ RetrainModel
  \/ SaveModelsCall
  \/ LoadModelsCall

SpecRoundTrip == InitStore /\ [][NextRoundTrip]_vars

-----------------------------------------------------------------------------
(* _predict_win_probability on its own: the engine before and after         *)
(* initialize(), and a call of the routine with any vector width, any model *)
(* outputs and any placeholder draws.  The routine changes nothing, so one  *)
(* call per behaviour shows everything it returns.                          *)

\* the probabilities a model's predict_proba returns: 0.0, and every float
\* from 0.125 to 1.0
ProbFloats == {f \in Floats : f = 0 \/ (Grid \div 8 <= f /\ f <= Grid)}

\* the draws of lines 387-388
PlaceholderDraws ==
  { <<Real(3, 10), Real(6, 10)>>, <<Real(11, 16), Real(3, 4)>>, <<Real(1, 2), Real(25, 32)>> }

\* the estimators whose transform or predict_proba is entered with the vector,
\* in the order of lines 392-397: none when the engine is untrained (385-389);
\* a call on None raises before anything is entered, and a call that raises
\* (unfitted estimator, wrong number of columns) ends the sequence
InvokedOn(e, width) ==
  IF ~e.is_trained \/ e.scaler.cls = "NoneType" THEN <<>>
  ELSE IF ~Usable(e.scaler, width) \/ e.lightgbm_model.cls = "NoneType"
  THEN <<"scaler">>
  ELSE IF ~Usable(e.lightgbm_model, width) \/ e.logistic_model.cls = "NoneType"
  THEN <<"scaler", "lightgbm">>
  ELSE IF ~Usable(e.logistic_model, width) \/ e.random_forest_model.cls = "NoneType"
  THEN <<"scaler", "lightgbm", "logistic">>
  ELSE <<"scaler", "lightgbm", "logistic", "random_forest">>

ScoreCall ==
  /\ reply = NoReply
  /\ \E width \in VectorWidths :
       LET how == InferenceOutcome(engine, <<>>, width) IN
       \E out \in IF how = "scored" THEN [1..3 -> ProbFloats] ELSE {<<0, 0, 0>>} :
         \E ph \in IF how = "placeholder" THEN PlaceholderDraws
                    ELSE {CHOOSE x \in PlaceholderDraws : TRUE} :
           LET draw == Draw(ph[1], ph[2], ph[1], ph[2], 200, ph[2], out)
               w == PredictWinProbability(engine, width, draw)
           IN reply' = [ op |-> "_predict_win_probability",
                         value |-> Some([ how |-> how, outputs |-> out,
                                          width |-> width,
                                          invoked |-> InvokedOn(engine, width),
                                          probability |-> w.probability,
                                          confidence |-> w.confidence ]) ]
  /\ UNCHANGED <<engine, disk, cache, tasks, clock, calls, phase, init_trace, hashseed>>

\* the outputs of the three models in a call of _predict_spread
SpreadOutputs == [1..3 -> {0, Grid \div 2, Grid}]

\* a call of _predict_spread: the reply keeps what the inner call of
\* _predict_win_probability (line 420) returned, and the payload
SpreadCall ==
  /\ reply = NoReply
  /\ \E width \in VectorWidths :
       LET how == InferenceOutcome(engine, <<"spread">>, width) IN
       \E out \in IF how = "scored" THEN SpreadOutputs ELSE {<<0, 0, 0>>} :
         \E ph \in IF how = "placeholder" THEN PlaceholderDraws
                    ELSE {CHOOSE x \in PlaceholderDraws : TRUE} :
           LET draw == Draw(ph[1], ph[2], ph[1], ph[2], 200, ph[2], out)
           IN reply' = [ op |-> "_predict_spread",
                         value |-> Some([ how |-> how,
                                          inner |-> PredictWinProbability(engine, width, draw),
                                          payload |-> PredictSpread(engine, width, draw) ]) ]
  /\ UNCHANGED <<engine, disk, cache, tasks, clock, calls, phase, init_trace, hashseed>>

InitScore == InitWith(InitialDisks, {0})

NextScore == Initialize \/ SpreadCall \/ ScoreCall

SpecScore == InitScore /\ [][NextScore]_vars

-----------------------------------------------------------------------------
(* Properties *)

Done(t) == tasks[t].pc = "done"

\* C1: predict never raises: every call that has ended has returned a
\* PredictionResult, and one that ended in the exception handler has
\* returned the demo prediction for its game_id.
C1_PredictNeverRaises ==
  \A t \in TaskIds :
    /\ tasks[t].outcome # "raised"
    /\ Done(t) =>
         /\ tasks[t].outcome = "returned"
         /\ tasks[t].result # None
         /\ tasks[t].path = "fallback" =>
              /\ tasks[t].result[1].game_id = tasks[t].req[1].game_id
              /\ IsDemoVersion(tasks[t].result[1].model_info.version)

\* a call ended in the fallback because the cache write raised
C1_Witness ==
  \E t \in TaskIds :
    Done(t) /\ tasks[t].path = "fallback" /\ tasks[t].failed = "cache_set"

\* C2: predict(game_id) without features, whose feature builder call raised,
\* returns a result whose model_info.version starts with "demo-".
C2_BuilderFailureGivesDemo ==
  \A t \in TaskIds :
    (Done(t) /\ tasks[t].req[1].features = None /\ tasks[t].failed = "build") =>
      /\ tasks[t].outcome = "returned"
      /\ IsDemoVersion(tasks[t].result[1].model_info.version)

\* such a call has ended on an engine without a trained bundle
C2_Witness ==
  \E t \in TaskIds :
    /\ Done(t) /\ tasks[t].req[1].features = None /\ tasks[t].failed = "build"
    /\ ~engine.is_trained
    /\ tasks[t].req[1].game_id = "g1"

Trained == phase = "ready" /\ engine.is_trained
DemoMode ==
  phase = "ready" /\ ~engine.is_trained /\ engine.model_version = "demo-1.0.0"

\* C3: initialize() ends Trained exactly when the load succeeded or the
\* training completed, and otherwise in DemoMode (untrained, version
\* "demo-1.0.0"); there is no other end state.
C3_InitializeEndsTrainedOrDemo ==
  phase = "ready" =>
    \/ /\ Trained
       /\ init_trace.load = "loaded" \/ init_trace.train = "trained"
    \/ /\ DemoMode
       /\ init_trace.load # "loaded" /\ init_trace.train # "trained"

\* the load and the training both failed
C3_Witness ==
  DemoMode /\ init_trace.load = "failed" /\ init_trace.train = "failed"

\* C4: in DemoMode no step other than retrain_model makes the engine trained.
C4_DemoModeNeverSelfHeals ==
  [][(DemoMode /\ ~RetrainModel) => ~engine'.is_trained]_vars

\* a predict has assembled a result and a read-only method has answered, in
\* DemoMode
C4_Witness ==
  /\ DemoMode
  /\ reply.op # "none"
  /\ \E t \in TaskIds : Done(t) /\ tasks[t].path = "assembled"

ModelFields(e) == <<e.lightgbm_model, e.logistic_model, e.random_forest_model, e.scaler>>

\* no model and no scaler: the bundle of a new engine
EmptyBundle(e) == \A i \in 1..4 : ModelFields(e)[i] = NoneModel

\* three fitted models and a fitted scaler of one training run
FullBundle(e) ==
  \A i \in 1..4 :
    /\ ModelFields(e)[i].fitted
    /\ ModelFields(e)[i].gen = e.lightgbm_model.gen

\* C5: the bundle is replaced atomically: the engine's models and scaler
\* are all those of one fully-formed bundle or all absent, never a mixture,
\* also after a load or a training run that failed partway.
C5_BundleReplacedAtomically ==
  /\ EmptyBundle(engine) \/ FullBundle(engine)
  /\ engine.is_trained => FullBundle(engine)

\* the bundle has come from one save: its models, its scaler and its metadata
SameSave(e) ==
  /\ FullBundle(e)
  /\ e.last_trained = Some(e.lightgbm_model.gen)

\* C6: a load never exposes metadata and model files of different saves.
C6_SaveEffectivelyAtomic ==
  [][(phase = "constructed" /\ phase' = "ready" /\ init_trace'.load = "loaded")
       => SameSave(engine')]_vars

\* C7: the load is all-or-nothing on the presence of the five artifacts: with
\* any of them missing it changes no field of the engine, whatever the other
\* files hold; and an engine that was loaded had all five.
C7_LoadAllOrNothing ==
  /\ (\E f \in Files : ~disk[f].exists) =>
       \A failAt \in 0..5 :
         /\ LoadModels(engine, disk, failAt) = [engine |-> engine, outcome |-> "absent"]
         /\ LoadModels(EngineInit, disk, failAt).engine = EngineInit
  /\ init_trace.load = "loaded" => \A f \in Files : disk[f].exists

\* initialize() has run its load on a directory holding some of the files
C7_Witness ==
  /\ phase = "ready"
  /\ init_trace.load = "absent"
  /\ \E f \in Files : disk[f].exists
  /\ \E f \in Files : ~disk[f].exists

\* weights for exactly the three models, each in [0, 1], summing to 1.0
ValidWeights(w) ==
  /\ DOMAIN w = ModelIds
  /\ \A k \in ModelIds : w[k] \in 0..10
  /\ w["lightgbm"] + w["logistic"] + w["random_forest"] = 10

\* C8: a stored bundle with inconsistent ensemble_weights is rejected by the
\* load: an engine that was loaded has consistent weights.
C8_LoadRejectsBadWeights ==
  init_trace.load = "loaded" => ValidWeights(engine.ensemble_weights)

\* C9: whenever the engine is trained, ensemble_weights gives each of the
\* three models a value in [0, 1] and the values sum to 1.0.
C9_TrainedWeightsValid ==
  engine.is_trained => ValidWeights(engine.ensemble_weights)

\* C10: a completed training run on a directory without a bundle leaves a
\* fully-populated bundle: metrics computed with the default weights,
\* ensemble_weights equal to them, one feature name per column, last_trained
\* set.
C10_TrainingPopulatesBundle ==
  (phase = "ready" /\ init_trace.load = "absent" /\ init_trace.train = "trained") =>
    /\ engine.performance_metrics # None
    /\ engine.performance_metrics[1].weights_used = DefaultWeights
    /\ engine.ensemble_weights = DefaultWeights
    /\ engine.feature_names.n = NFeatures
    /\ engine.last_trained # None

-----------------------------------------------------------------------------
(* Batches and the cache *)

\* the coroutines of the gathered batch whose feature builder call raised
BuilderFailures ==
  {t \in TaskIds : tasks[t].pc = "gathered" /\ tasks[t].failed = "build"}

\* C11: a batch of N requests in which the feature builder fails for exactly
\* k (and nothing else fails) is answered without error with N results and
\* successful_predictions = N - k.
C11_BatchCountsPartialSuccess ==
  ( /\ reply.op = "predict_batch"
    /\ \A t \in TaskIds : tasks[t].failed \in {"none", "build"} ) =>
      /\ reply.value[1].status = 200
      /\ Len(reply.value[1].body[1].predictions) = BatchSize
      /\ reply.value[1].body[1].total_games = BatchSize
      /\ reply.value[1].body[1].successful_predictions
           = BatchSize - Cardinality(BuilderFailures)

\* C12: a step in which one coroutine of a batch falls back changes no other
\* coroutine, nor the cache, nor the engine; and the batch is answered with
\* one entry per request, in request order, each the result of its own
\* coroutine.
C12_BatchIsolatesFailures ==
  [][ /\ \A t \in TaskIds :
           ( /\ tasks[t].pc \in {"cache_get", "build", "cache_set"}
             /\ tasks'[t].path = "fallback" ) =>
               /\ \A u \in TaskIds \ {t} : tasks'[u] = tasks[u]
               /\ cache' = cache
               /\ engine' = engine
      /\ (reply'.op = "predict_batch" /\ reply' # reply) =>
           /\ reply'.value[1].status = 200
           /\ Len(reply'.value[1].body[1].predictions) = BatchSize
           /\ \A i \in 1..BatchSize :
                /\ tasks[i].pc = "done"
                /\ reply'.value[1].body[1].predictions[i] = tasks[i].result[1]
                /\ reply'.value[1].body[1].predictions[i].game_id
                     = tasks[i].req[1].game_id
    ]_vars

\* a batch of two has been answered: the builder failed for the first request
\* and the second carries a result assembled from the engine
C12_Witness ==
  /\ reply.op = "predict_batch"
  /\ BatchSize = 2
  /\ tasks[1].failed = "build"
  /\ tasks[2].path = "assembled"
  /\ ~IsDemoVersion(reply.value[1].body[1].predictions[2].model_info.version)
  /\ IsDemoVersion(reply.value[1].body[1].predictions[1].model_info.version)

\* C13: a lookup that finds an entry under the call's key ends the call with
\* that entry, unchanged, whatever the engine's version and last_trained are,
\* without building features or touching the engine or the cache (the lookup
\* itself raising is the only other end).
C13_CacheHitServedUnchanged ==
  [][ \A t \in TaskIds :
        LET key == CacheKey(hashseed, tasks[t].req[1].game_id, tasks[t].req[1].features)
        IN ( /\ tasks[t].pc = "cache_get"
             /\ tasks'[t] # tasks[t]
             /\ cache[key] # None ) =>
               /\ tasks'[t].pc = "done"
               /\ \/ tasks'[t].failed = "cache_get"
                  \/ /\ tasks'[t].path = "cache_hit"
                     /\ tasks'[t].result = Some(cache[key][1].value)
               /\ engine' = engine
               /\ cache' = cache
    ]_vars

\* a call was served an entry written before a retrain: the entry's
\* last_trained is not the engine's
C13_Witness ==
  \E t \in TaskIds :
    /\ tasks[t].path = "cache_hit"
    /\ phase = "ready"
    /\ engine.last_trained = Some(clock)
    /\ init_trace.load = "loaded"
    /\ tasks[t].result[1].model_info.last_trained # engine.last_trained
    /\ tasks[t].result[1].model_info.version = engine.model_version

\* C14: the key a result is cached under is a function of the call's game_id
\* and features alone, the same in whatever process computes it; and absent
\* features give another key than a features object.
C14_CacheKeyDeterministic ==
  /\ \A k \in CacheKeys :
       cache[k] # None =>
         \E f \in FeatureInputs :
           \A s \in HashSeeds : k = CacheKey(s, cache[k][1].value.game_id, f)
  /\ \A g \in GameIds : \A f \in FeatureInputs \ {None} :
       CacheKey(hashseed, g, None) # CacheKey(hashseed, g, f)

\* C15: a call that has built its features and assembled its result, and
\* whose cache write then raises, returns the result it assembled.
C15_CacheWriteBestEffort ==
  [][ \A t \in TaskIds :
        (tasks[t].pc = "cache_set" /\ tasks'[t].pc = "done") =>
          /\ tasks'[t].outcome = "returned"
          /\ tasks'[t].result = tasks[t].result
    ]_vars

\* C16: a call on a trained engine with all three weights, whose scoring
\* raised (so in a transform or predict_proba call), returns a demo
\* prediction, its version starting with "demo-".
C16_InferenceErrorGivesDemo ==
  \A t \in TaskIds :
    ( /\ Done(t)
      /\ tasks[t].inference = "raised"
      /\ ModelIds \subseteq DOMAIN engine.ensemble_weights ) =>
      /\ tasks[t].outcome = "returned"
      /\ IsDemoVersion(tasks[t].result[1].model_info.version)

\* C17: the win probability computed on an untrained engine is a placeholder
\* with probability in [0.3, 0.7] and confidence in [0.6, 0.8], and the
\* result that carries it has a version starting with "demo-".
C17_PlaceholderIsLabeled ==
  \A t \in TaskIds :
    ( /\ Done(t)
      /\ tasks[t].path = "assembled"
      /\ tasks[t].inference = "placeholder"
      /\ "win_probability" \in DOMAIN tasks[t].result[1].predictions ) =>
        LET w == tasks[t].result[1].predictions["win_probability"] IN
        /\ Real(3, 10) <= w.probability /\ w.probability <= Real(7, 10)
        /\ Real(6, 10) <= w.confidence /\ w.confidence <= Real(8, 10)
        /\ IsDemoVersion(tasks[t].result[1].model_info.version)

\* C18: a step that ends a call in the fallback returns a result and leaves
\* the engine, the files and the cache as they were; the result has the
\* call's game_id, one win_probability payload with probability in
\* [0.35, 0.65] and confidence in [0.6, 0.85], that confidence as its overall
\* confidence, the fixed demo explanation and the version "demo-1.0.0".
C18_DemoPredictionAlwaysSucceeds ==
  [][ \A t \in TaskIds :
        ( /\ tasks'[t] # tasks[t]
          /\ tasks'[t].pc = "done"
          /\ tasks'[t].path = "fallback" ) =>
            LET r == tasks'[t].result[1] IN
            /\ tasks'[t].outcome = "returned"
            /\ engine' = engine /\ disk' = disk /\ cache' = cache
            /\ r.game_id = tasks'[t].req[1].game_id
            /\ DOMAIN r.predictions = {"win_probability"}
            /\ Real(35, 100) <= r.predictions["win_probability"].probability
            /\ r.predictions["win_probability"].probability <= Real(65, 100)
            /\ Real(6, 10) <= r.predictions["win_probability"].confidence
            /\ r.predictions["win_probability"].confidence <= Real(85, 100)
            /\ r.confidence = r.predictions["win_probability"].confidence
            /\ r.explanation = Some(DemoExplanation)
            /\ r.model_info.version = "demo-1.0.0"
    ]_vars

\* a call on a trained engine with a filled cache ended in the fallback, for
\* a request that asked for another kind and no explanation
C18_Witness ==
  \E t \in TaskIds :
    /\ Done(t) /\ tasks[t].path = "fallback"
    /\ Trained
    /\ \E k \in CacheKeys : cache[k] # None
    /\ tasks[t].req[1].prediction_types = <<"total_points", "player_performance">>
    /\ ~tasks[t].req[1].include_explanation

\* C19: whatever the engine's state, the vector and the three models'
\* probabilities in [0, 1], the confidence _predict_win_probability returns is
\* at least 0.5 and at most 1.0.
C19_ConfidenceInRange ==
  reply.op = "_predict_win_probability" =>
    /\ Real(1, 2) <= reply.value[1].confidence
    /\ reply.value[1].confidence <= Real(1, 1)

\* the ensemble scored three probabilities that disagree so much that only
\* the floor keeps the confidence at 0.5
C19_Witness ==
  /\ reply.op = "_predict_win_probability"
  /\ reply.value[1].how = "scored"
  /\ reply.value[1].outputs = <<0, Grid, 0>>
  /\ reply.value[1].confidence = Real(1, 2)

\* C20: when the three models return the same probability, the confidence of
\* the ensemble's score is exactly 1.0.
C20_EqualOutputsFullConfidence ==
  ( /\ reply.op = "_predict_win_probability"
    /\ reply.value[1].how = "scored"
    /\ reply.value[1].outputs[1] = reply.value[1].outputs[2]
    /\ reply.value[1].outputs[2] = reply.value[1].outputs[3] ) =>
      reply.value[1].confidence = Real(1, 1)

-----------------------------------------------------------------------------
(* Payloads and the assembled result *)

\* C21: the payload of _predict_spread is spread = (p - 0.5) * 20 for the win
\* probability p its inner call returned, negative below 0.5, positive above
\* and 0.0 at exactly 0.5, with that call's confidence.
C21_SpreadIsLinearMap ==
  reply.op = "_predict_spread" =>
    LET p == reply.value[1].inner.probability
        payload == reply.value[1].payload
    IN /\ payload.spread = (p - Real(1, 2)) * 20
       /\ p > Real(1, 2) => payload.spread > 0
       /\ p < Real(1, 2) => payload.spread < 0
       /\ p = Real(1, 2) => payload.spread = 0
       /\ payload.confidence = reply.value[1].inner.confidence

\* the ensemble scored a win probability below 0.5 and the spread is negative
C21_Witness ==
  /\ reply.op = "_predict_spread"
  /\ reply.value[1].how = "scored"
  /\ reply.value[1].inner.probability < Real(1, 2)
  /\ reply.value[1].payload.spread < 0

\* C22: in a result that predict assembled, the overall confidence is the
\* confidence of the win_probability payload when that kind was requested or
\* defaulted (no kinds given), and 0.5 when it was not requested.
C22_OverallConfidence ==
  \A t \in TaskIds :
    (Done(t) /\ tasks[t].path = "assembled") =>
      LET r == tasks[t].result[1]
          kinds == tasks[t].req[1].prediction_types
      IN IF kinds = <<>> \/ \E i \in 1..Len(kinds) : kinds[i] = "win_probability"
         THEN /\ "win_probability" \in DOMAIN r.predictions
              /\ r.confidence = r.predictions["win_probability"].confidence
         ELSE r.confidence = Real(1, 2)

\* a result for a request of the spread alone: its overall confidence is 0.5
\* and not the confidence of its spread payload
C22_Witness ==
  \E t \in TaskIds :
    /\ Done(t) /\ tasks[t].path = "assembled"
    /\ tasks[t].req[1].prediction_types = <<"spread">>
    /\ tasks[t].result[1].confidence = Real(1, 2)
    /\ tasks[t].result[1].predictions["spread"].confidence # Real(1, 2)

-----------------------------------------------------------------------------
(* The model store, continued *)

\* C23: when _save_models has completed on a trained engine and a new engine
\* then loads from the same path (no read failing), the new engine is
\* trained and has the feature_names, the ensemble_weights and the
\* model_version of the engine that saved.
C23_SaveLoadRoundTrip ==
  [][ ( /\ reply.op = "_save_models"
        /\ reply.value[1].completed
        /\ reply'.op = "_load_models"
        /\ reply'.value[1].outcome # "failed" ) =>
          /\ reply'.value[1].outcome = "loaded"
          /\ reply'.value[1].engine.is_trained
          /\ reply'.value[1].engine.feature_names = engine.feature_names
          /\ reply'.value[1].engine.ensemble_weights = engine.ensemble_weights
          /\ reply'.value[1].engine.model_version = engine.model_version
    ]_vars

\* a new engine has loaded what an engine with the deployed skewed weights
\* saved after a retrain: only that save writes these weights with a later
\* last_trained
C23_Witness ==
  /\ reply.op = "_load_models"
  /\ reply.value[1].outcome = "loaded"
  /\ reply.value[1].engine.ensemble_weights = SkewedWeights
  /\ reply.value[1].engine.last_trained = engine.last_trained
  /\ engine.last_trained # Some(0)

\* the fields that make up the live bundle
BundleFields(e) ==
  << ModelFields(e), e.ensemble_weights, e.feature_names, e.model_version,
     e.last_trained, e.is_trained >>

\* C24: once the engine is serving, a step (retraining included, also with
\* predictions in flight) leaves models, scaler, ensemble_weights,
\* feature_names, model_version, last_trained and is_trained as they were,
\* unless it replaces them by a new fully-formed bundle: fitted models and
\* scaler of one training run, with that run's last_trained.
C24_RetrainKeepsOrReplacesBundle ==
  [][ (phase = "ready" /\ phase' = "ready") =>
        \/ BundleFields(engine') = BundleFields(engine)
        \/ /\ SameSave(engine')
           /\ engine'.is_trained
           /\ ModelFields(engine') # ModelFields(engine)
    ]_vars

-----------------------------------------------------------------------------
(* Calls before startup has completed *)

\* C25: a predict call made and ended while initialize() has not returned
\* ends with an error, not with a prediction.
C25_UninitializedCallFails ==
  \A t \in TaskIds :
    (Done(t) /\ phase = "constructed") =>
      /\ tasks[t].outcome = "raised"
      /\ tasks[t].result = None

-----------------------------------------------------------------------------
(* What a returned result holds *)

\* the kinds a request asks for: win_probability when it names none
RequestedKinds(req) ==
  IF req.prediction_types = <<>> THEN {"win_probability"}
  ELSE KindsOf(req.prediction_types)

\* C26: every result predict returns has a payload for each kind its request
\* asked for, also when an earlier call for the same game and features with
\* other kinds has filled the cache.
C26_PayloadForEachRequestedKind ==
  \A t \in TaskIds :
    (Done(t) /\ tasks[t].outcome = "returned") =>
      RequestedKinds(tasks[t].req[1]) \subseteq DOMAIN tasks[t].result[1].predictions

-----------------------------------------------------------------------------
(* The width of the feature vector *)

\* C27: when _predict_win_probability is given a vector whose width is not
\* len(feature_names), the call ends without the scaler or any model having
\* been invoked on the vector.
C27_WrongWidthNeverInvoked ==
  ( /\ reply.op = "_predict_win_probability"
    /\ reply.value[1].width # engine.feature_names.n ) =>
      reply.value[1].invoked = <<>>

-----------------------------------------------------------------------------
(* The explanation *)

\* main_factors of the explanation built when the importances cannot be used
GenericFactors == <<"Team performance analysis", "Historical matchup data">>

\* the step in which predict assembles the result of coroutine t
Assembles(t) ==
  /\ tasks[t].result = None
  /\ tasks'[t].result # None
  /\ tasks'[t].pc \in {"cache_set", "done"}
  /\ tasks'[t].path \in {"none", "assembled"}

\* C28: when predict assembles a result for a request with
\* include_explanation, the result carries an explanation whose main_factors
\* has at most 3 entries, and the fixed generic factors when the engine has
\* fewer than 3 feature importances (none in DemoMode).
C28_ExplanationDegrades ==
  [][ \A t \in TaskIds :
        (Assembles(t) /\ tasks'[t].req[1].include_explanation) =>
          /\ tasks'[t].result[1].explanation # None
          /\ Len(tasks'[t].result[1].explanation[1].main_factors) <= 3
          /\ Len(GetFeatureImportance(engine)) < 3 =>
                tasks'[t].result[1].explanation[1].main_factors = GenericFactors
    ]_vars

C28_Witness ==
  \E t \in TaskIds :
    /\ Done(t)
    /\ tasks[t].path = "assembled"
    /\ tasks[t].req[1].include_explanation
    /\ DemoMode
    /\ GetFeatureImportance(engine) = <<>>
    /\ tasks[t].result[1].explanation[1].main_factors = GenericFactors
    /\ IsDemoVersion(tasks[t].result[1].model_info.version)

-----------------------------------------------------------------------------
(* The payloads of one result *)

\* C29: in a result assembled by predict that has a win_probability and a
\* spread payload, spread = (probability - 0.5) * 20 and both payloads have
\* the same confidence, whether the engine is trained or not.
C29_SpreadAgreesWithWinProbability ==
  \A t \in TaskIds :
    ( /\ Done(t)
      /\ tasks[t].path = "assembled"
      /\ {"win_probability", "spread"} \subseteq DOMAIN tasks[t].result[1].predictions ) =>
        LET w == tasks[t].result[1].predictions["win_probability"]
            s == tasks[t].result[1].predictions["spread"]
        IN /\ s.spread = (w.probability - Real(1, 2)) * 20
           /\ s.confidence = w.confidence

-----------------------------------------------------------------------------
(* What the cache holds *)

\* the key computed at line 319 of the call run by coroutine t
KeyOf(t) == CacheKey(hashseed, tasks[t].req[1].game_id, tasks[t].req[1].features)

\* a result of _generate_demo_prediction: only it carries this explanation
IsFallbackResult(r) == r.explanation = Some(DemoExplanation)

\* C30: a call that ends in the exception fallback leaves the cache as it
\* is; an entry appears in the cache only when a call stores the result it
\* assembled, under the key of that call and with ttl 3600; so no entry is a
\* demo-fallback result and no call is served one from the cache.
C30_FallbackNeverCached ==
  [][ /\ \A t \in TaskIds :
           (tasks[t].path # "fallback" /\ tasks'[t].path = "fallback") =>
             /\ cache' = cache
             /\ IsFallbackResult(tasks'[t].result[1])
      /\ \A key \in DOMAIN cache :
           (cache'[key] # cache[key] /\ cache'[key] # None) =>
             /\ \E t \in TaskIds :
                  /\ tasks[t].pc = "cache_set"
                  /\ tasks'[t].pc = "done"
                  /\ tasks'[t].path = "assembled"
                  /\ key = KeyOf(t)
                  /\ cache'[key] = Some([value |-> tasks[t].result[1], ttl |-> 3600])
             /\ ~IsFallbackResult(cache'[key][1].value)
      /\ \A t \in TaskIds :
           (tasks[t].pc = "cache_get" /\ tasks'[t].path = "cache_hit") =>
             ~IsFallbackResult(tasks'[t].result[1])
    ]_vars

C30_Witness ==
  \E t \in TaskIds :
    /\ Done(t)
    /\ tasks[t].path = "fallback"
    /\ tasks[t].failed = "cache_set"
    /\ IsFallbackResult(tasks[t].result[1])
    /\ cache[KeyOf(t)] = None
    /\ \E key \in DOMAIN cache : cache[key] # None /\ cache[key][1].ttl = 3600

-----------------------------------------------------------------------------
(* Concurrent calls for one key *)

\* a PredictionResult for the request: the game asked for, payloads of the
\* kinds predict knows, probabilities and confidences within 0..1
WellFormedResult(r, req) ==
  /\ r.game_id = req.game_id
  /\ DOMAIN r.predictions \subseteq {"win_probability", "spread", "total_points"}
  /\ 0 <= r.confidence /\ r.confidence <= Real(1, 1)
  /\ \A k \in DOMAIN r.predictions :
       0 <= r.predictions[k].confidence /\ r.predictions[k].confidence <= Real(1, 1)
  /\ r.model_info.version \in {"1.0.0", "demo-1.0.0"}

\* C31: with coroutines for one key started together on the empty cache (and
\* later calls), every call ends returning a well-formed result; every cache
\* write replaces the entry of its key by the writer's result, so that when
\* all coroutines of the batch have ended the entry is the result written
\* last; and a lookup that finds the entry returns exactly it.
C31_ConcurrentCallsCoherent ==
  [][ /\ \A t \in TaskIds :
           (tasks[t].pc # "done" /\ tasks'[t].pc = "done") =>
             /\ tasks'[t].outcome = "returned"
             /\ WellFormedResult(tasks'[t].result[1], tasks'[t].req[1])
      /\ \A t \in TaskIds :
           (tasks[t].pc = "cache_set" /\ tasks'[t].path = "assembled") =>
             /\ cache'[KeyOf(t)] # None
             /\ cache'[KeyOf(t)][1].value = tasks[t].result[1]
             /\ tasks'[t].result = tasks[t].result
      /\ \A key \in DOMAIN cache :
           (cache'[key] # cache[key] /\ cache'[key] # None) =>
             \E t \in TaskIds :
               tasks[t].pc = "cache_set" /\ tasks'[t].path = "assembled" /\ key = KeyOf(t)
      /\ ( /\ calls = 1
           /\ \A t \in TaskIds : tasks[t].pc = "done"
           /\ cache[KeyOf(1)] # None ) =>
             \E t \in TaskIds :
               /\ tasks[t].path = "assembled"
               /\ cache[KeyOf(1)][1].value = tasks[t].result[1]
      /\ \A t \in TaskIds :
           ( /\ tasks[t].pc = "cache_get"
             /\ tasks'[t] # tasks[t]
             /\ cache[KeyOf(t)] # None
             /\ tasks'[t].failed # "cache_get" ) =>
               tasks'[t].result = Some(cache[KeyOf(t)][1].value)
    ]_vars

\* both coroutines of a batch for one key missed the empty cache, each
\* assembled its own result and wrote it, and the entry is one of the two
C31_Witness ==
  /\ calls = 1
  /\ \A t \in TaskIds : Done(t) /\ tasks[t].path = "assembled"
  /\ KeyOf(1) = KeyOf(2)
  /\ tasks[1].result # tasks[2].result
  /\ cache[KeyOf(1)] # None
  /\ cache[KeyOf(1)][1].value = tasks[1].result[1]

-----------------------------------------------------------------------------
(* The trained flag *)

\* the attributes that hold the three classifiers and the scaler
Estimators(e) == {e.lightgbm_model, e.logistic_model, e.random_forest_model, e.scaler}

\* C32: whenever is_trained is true, the three classifiers and the scaler
\* are all present (not None), whatever operations ran before and wherever
\* they failed.
C32_TrainedHasEstimators ==
  engine.is_trained => \A m \in Estimators(engine) : m.cls # "NoneType"

\* a load that raised partway was followed by a completed training
C32_Witness ==
  /\ engine.is_trained
  /\ init_trace.load = "failed"
  /\ init_trace.train = "trained"
  /\ \A m \in Estimators(engine) : m.cls # "NoneType" /\ m.gen = clock

====
